---------------------------- MODULE Spec2Model ----------------------------
(***************************************************************************)
(* Brighton Player Daily (app.py): the daily selection of a player with a  *)
(* no-repeat window over a persisted history file, the debug endpoints     *)
(* that act on the selection state, and the tiered, fact-deduplicated clue *)
(* list built for a player.                                                *)
(*                                                                         *)
(* Calendar dates are day ordinals 0..MaxDay.  The history window of the   *)
(* code is timedelta(days=30) (app.py:136); the model is parametric in the *)
(* window length, WindowDays, and is checked for small windows.            *)
(***************************************************************************)
EXTENDS Integers, Sequences, FiniteSets, TLC

\* ------------------------------------------------------------------ bounds
\* Number of records of the catalog (len(players_df)).
NPlayers == 3
\* Last calendar day the model reaches.
MaxDay == 3
\* Length of the no-repeat window in days (30 in app.py:136).
WindowDays == 2

VARIABLES
    players_df,            \* the catalog: index -> league appearances
    debug,                 \* app.debug
    current_player_index,  \* the override: {} is None, {i} is index i
    recent_file,           \* recent_players.json: [kind, data]
    today,                 \* datetime.now().date(), a day ordinal
    rng_memo,              \* what random.Random(seed) draws: <<seed, n>> -> j
    resp,                  \* the last call and what it returned
    selected,              \* date -> index returned since the history was last empty
    clue_player,           \* the record build_clues is called on
    rng_world,             \* which shuffles random.Random(seed) makes for the seeds
    clue_seed,             \* the seed argument of the last direct build_clues call
    clues,                 \* the list the last direct build_clues call returned
    clue_log,              \* seed -> the list build_clues returned for it
    model,                 \* the module global model: FALSE is None (app.py:15-19)
    instances              \* the server processes: where each is in get_daily_player

clueVars == <<clue_player, rng_world, clue_seed, clues, clue_log>>

vars == <<players_df, debug, current_player_index, recent_file, today,
          rng_memo, resp, selected, clueVars, model, instances>>

Indices == 0 .. (NPlayers - 1)

\* A function with an empty domain: the empty dict.
EmptyMap == [d \in {} |-> 0]

\* dict comprehension / restriction of a mapping to the keys in S
Restrict(f, S) == [d \in (DOMAIN f) \cap S |-> f[d]]

\* f with key k set to v
Put(f, k, v) == [d \in (DOMAIN f) \cup {k} |-> IF d = k THEN v ELSE f[d]]

\* The server processes that share the catalog and the history file: two.
Instances == {1, 2}

\* A server process outside get_daily_player: nothing loaded, nothing returned.
\* pc is the place in the function, date its local today, loaded the history
\* as load_recent_players returned it, recent_players the local mapping, idx
\* what the call returns, path the branch taken, read the file as the load
\* found it, overlap whether another process wrote the file while this one
\* had it open for writing.
IdleInstance ==
    [pc |-> "idle", date |-> 0, loaded |-> EmptyMap, recent_players |-> EmptyMap,
     idx |-> {}, path |-> "none", read |-> "none", overlap |-> FALSE]

IdleInstances == [i \in Instances |-> IdleInstance]

\* ------------------------------------------------ history file (app.py:88-109)
MissingFile == [kind |-> "missing", data |-> EmptyMap]

JsonFile(m) == [kind |-> "json", data |-> m]

\* What is in the file when it was not written by save_recent_players: text
\* that is not JSON, JSON that is not an object (a list), an object whose keys
\* are not ISO dates.
BadJsonFile == [kind |-> "badjson", data |-> EmptyMap]

\* The file between open(RECENT_PLAYERS_FILE, 'w') and the end of the with
\* block (app.py:108-109): truncated, the document not yet written.  It is
\* not JSON either.
TruncatedFile == [kind |-> "truncated", data |-> EmptyMap]

NotObjectFile == [kind |-> "notobject", data |-> EmptyMap]

BadKeysFile == [kind |-> "badkeys", data |-> EmptyMap]

\* Variant: every failure of the load is caught.
LoadError_allCaught == "none"

\* app.py:90-99: the exception load_recent_players lets through.
\* FileNotFoundError and json.JSONDecodeError are caught (app.py:98); a list
\* has no .items() (app.py:94), date.fromisoformat rejects the key (app.py:96).
LoadError ==
    CASE recent_file.kind = "notobject" -> "AttributeError"
      [] recent_file.kind = "badkeys" -> "ValueError"
      [] OTHER -> "none"

\* load_recent_players when it returns: a missing file and a file that is not
\* JSON read as the empty mapping.
load_recent_players ==
    IF recent_file.kind = "json" THEN recent_file.data ELSE EmptyMap

\* save_recent_players: the whole document is overwritten.
save_recent_players(recent_players) == JsonFile(recent_players)

\* ------------------------------------------------ get_daily_player: its parts (app.py:124-177)
\* Variant: the override is honoured whatever app.debug is.
OverrideInEffect_anyMode == current_player_index # {}

\* app.py:128
OverrideInEffect == debug /\ current_player_index # {}

\* Variant: the entry dated exactly today - window is dropped as well.
PruneOld_strict(recent_players, t) ==
    Restrict(recent_players, {d \in DOMAIN recent_players : d > t - WindowDays})

\* app.py:136-138: entries dated before today - window are dropped.
PruneOld(recent_players, t) ==
    Restrict(recent_players, {d \in DOMAIN recent_players : d >= t - WindowDays})

\* Variant: today's entry is never looked up.
CachedToday_never(recent_players, t) == FALSE

\* app.py:142
CachedToday(recent_players, t) == t \in DOMAIN recent_players

\* Variant: no index counts as recently used.
RecentlyUsed_none(recent_players) == {}

\* app.py:149
RecentlyUsed(recent_players) == {recent_players[d] : d \in DOMAIN recent_players}

\* app.py:153: seed = today.year * 1000 + today.timetuple().tm_yday.
\* Day 0 is 30 December 2025, so the model crosses a year boundary.
DateYear(t) == 2025 + ((t + 363) \div 365)

DateYDay(t) == ((t + 363) % 365) + 1

DateSeed(t) == DateYear(t) * 1000 + DateYDay(t)

\* Variant: the filter admits zero appearances.
HasAppearances_orZero(idx) == players_df[idx] >= 0

\* app.py:157-158: the eligible pool, in index order.
HasAppearances(idx) == players_df[idx] > 0

\* Variant: the pool is the whole catalog.
AllIndices_unfiltered == [i \in 1 .. NPlayers |-> i - 1]

AllIndices ==
    SelectSeq([i \in 1 .. NPlayers |-> i - 1], LAMBDA idx : HasAppearances(idx))

\* Variant: recently used players stay in the pool.
NotRecentlyUsed_keepAll(all_indices, recently_used) == all_indices

\* app.py:161
NotRecentlyUsed(all_indices, recently_used) ==
    SelectSeq(all_indices, LAMBDA idx : idx \notin recently_used)

\* Variant: no reset of an exhausted pool.
AvailableIndices_noReset(all_indices, recently_used) ==
    SelectSeq(all_indices, LAMBDA idx : idx \notin recently_used)

\* app.py:161-166: the pool the draw is made from, reset when exhausted.
AvailableIndices(all_indices, recently_used) ==
    LET left == NotRecentlyUsed(all_indices, recently_used)
    IN  IF left = <<>> THEN all_indices ELSE left

\* Variant: the draw does not depend on the seed.
DrawChoices_unseeded(seed, n) == 0 .. (n - 1)

\* random.Random(seed).choice(seq) is seq[randbelow(len(seq))]: the draw j is a
\* fixed function of the seed and the length, left open until first used.
DrawChoices(seed, n) ==
    IF <<seed, n>> \in DOMAIN rng_memo THEN {rng_memo[<<seed, n>>]} ELSE 0 .. (n - 1)

\* Seeds that a later call can still use: those of today and of later days.
LiveSeeds(t) == {DateSeed(d) : d \in t .. MaxDay}

KeepLive(memo, t) == Restrict(memo, {k \in DOMAIN memo : k[1] \in LiveSeeds(t)})

NoResp == [op |-> "none", status |-> "none", idx |-> {}, path |-> "none", loaded |-> FALSE]

DailyResp(status, idx, path, loaded) ==
    [op |-> "daily", status |-> status, idx |-> idx, path |-> path, loaded |-> loaded]

\* ------------------------------------------------ /api/set-player (app.py:111-122)
\* app.py:114
SetPlayerForbidden == ~debug

\* app.py:118
ValidIndex(idx) == 0 <= idx /\ idx < NPlayers

SetPlayer(idx) ==
    /\ IF SetPlayerForbidden
       THEN /\ resp' = [NoResp EXCEPT !.op = "set_player", !.status = "403"]
            /\ UNCHANGED current_player_index
       ELSE IF ValidIndex(idx)
       THEN /\ current_player_index' = {idx}
            /\ resp' = [NoResp EXCEPT !.op = "set_player", !.status = "200"]
       ELSE /\ resp' = [NoResp EXCEPT !.op = "set_player", !.status = "400"]
            /\ UNCHANGED current_player_index
    /\ UNCHANGED <<model, instances, players_df, debug, recent_file, today, rng_memo, selected, clueVars>>

\* ------------------------------------------------ /api/debug/reset-recent (app.py:436-447)
\* Variant: the reset endpoint is open in production.
ResetForbidden_never == FALSE

\* app.py:439
ResetForbidden == ~debug

DebugResetRecent ==
    /\ IF ResetForbidden
       THEN /\ resp' = [NoResp EXCEPT !.op = "reset_recent", !.status = "403"]
            /\ UNCHANGED <<recent_file, selected>>
       ELSE /\ recent_file' = MissingFile
            /\ selected' = EmptyMap
            /\ resp' = [NoResp EXCEPT !.op = "reset_recent", !.status = "200"]
    /\ UNCHANGED <<model, instances, players_df, debug, current_player_index, today, rng_memo, clueVars>>

\* ------------------------------------------------ environment
\* The calendar moves on to the next day.
AdvanceDay ==
    /\ today < MaxDay
    /\ today' = today + 1
    /\ rng_memo' = KeepLive(rng_memo, today + 1)
    /\ selected' = Restrict(selected, {d \in DOMAIN selected : d > today + 1 - WindowDays})
    /\ resp' = [NoResp EXCEPT !.op = "tick"]
    /\ UNCHANGED <<model, instances, players_df, debug, current_player_index, recent_file, clueVars>>

\* app.debug is assigned by the test fixtures (test_app.py:22-42).
SetDebug(b) ==
    /\ debug' = b
    /\ resp' = [NoResp EXCEPT !.op = "set_debug"]
    /\ UNCHANGED <<model, instances, players_df, current_player_index, recent_file, today, rng_memo, selected, clueVars>>

\* ------------------------------------------------ build_clues (app.py:179-262)
\* A text is a sequence of pieces: the literal parts of an f-string and the field
\* values formatted into it.  The empty string is the empty sequence.

\* A missing value (float nan): not a str, truthy, formatted as "nan".
NaN == "nan"

\* bool(value) of a field value: only the empty string is falsy.
Truthy(value) == value # ""

\* c.strip() is empty
Blank(c) == \A i \in 1 .. Len(c) : c[i] \in {"", " "}

\* re.findall(r'(\d{4})', s) on the season texts of the model, as integers
YearsIn(s) ==
    CASE s = "2010-2024" -> {2010, 2024}
      [] s = "2015-2016" -> {2015, 2016}
      [] OTHER -> {}

\* str() of a decade
DecadeStr(n) ==
    CASE n = 2010 -> "2010"
      [] n = 2020 -> "2020"
      [] OTHER -> "0"

SetMin(S) == CHOOSE x \in S : \A y \in S : x <= y

SetMax(S) == CHOOSE x \in S : \A y \in S : y <= x

\* app.py:179-190
extract_era(seasons_str) ==
    IF ~Truthy(seasons_str) THEN <<>>
    ELSE IF YearsIn(seasons_str) = {} THEN <<>>
    ELSE LET decades == {(y \div 10) * 10 : y \in YearsIn(seasons_str)} IN
         IF Cardinality(decades) = 1
         THEN <<"the ", DecadeStr(SetMin(decades)), "s">>
         ELSE <<"the ", DecadeStr(SetMin(decades)), "s and ",
                DecadeStr(SetMax(decades)), "s">>

\* 'Retired' in left_for_value, on the texts of the model
HasRetired(value) == value \in {"Retired", "Retired (injury)"}

\* Variant: the 'Retired' test is left out, a retirement is phrased as a club.
LeftForClue_noRetiredTest(player) ==
    IF player.left_for # NaN
    THEN IF player.left_for = "Still at club"
         THEN <<"This player is still at the club.">>
         ELSE <<"This player left Brighton to join ", player.left_for>>
    ELSE <<>>

\* app.py:201-210.  No text of the model has blanks around it, so
\* left_for_value.strip() is the text itself.
LeftForClue(player) ==
    IF player.left_for # NaN
    THEN IF HasRetired(player.left_for) THEN <<>>
         ELSE IF player.left_for = "Still at club"
              THEN <<"This player is still at the club.">>
              ELSE <<"This player left Brighton to join ", player.left_for>>
    ELSE <<>>

\* app.py:213-214
EraClue(player) ==
    LET era == extract_era(player.seasons) IN
    IF era # <<>> THEN <<"This player played for Brighton during ">> \o era \o <<".">>
    ELSE <<>>

\* app.py:217-218: pd.notna(goals)
GoalsClue(player) ==
    IF player.goals # NaN
    THEN <<"This player scored ", player.goals, " league goals for Brighton.">>
    ELSE <<>>

Def(c, t) == [c |-> c, t |-> t]

\* Variant: the full birth candidate sits in Tier 1 with the birth+spells one.
Tier1_withFullBirth(player) ==
    << Def(IF ~Truthy(player.seasons) THEN EraClue(player) ELSE <<>>, {"era"}),
       Def(<<"This player was born in ", player.pob, ", ", player.cob, " and has ",
             player.spells, " spell(s) at Brighton.">>, {"birth", "spells"}),
       Def(IF Truthy(player.seasons)
           THEN <<"Seasons at Brighton: ", player.seasons>> ELSE <<>>, {"seasons"}),
       Def(IF Truthy(player.seasons2)
           THEN <<"Seasons at Brighton during second spell: ", player.seasons2>>
           ELSE <<>>, {"seasons2"}),
       Def(<<"This player was born on ", player.dob, ", in ", player.pob, ", ",
             player.cob, ".">>, {"birth"}) >>

\* Variant: the second-spell candidate is built whether or not the field is empty.
Tier1_secondSpellAlways(player) ==
    << Def(IF ~Truthy(player.seasons) THEN EraClue(player) ELSE <<>>, {"era"}),
       Def(<<"This player was born in ", player.pob, ", ", player.cob, " and has ",
             player.spells, " spell(s) at Brighton.">>, {"birth", "spells"}),
       Def(IF Truthy(player.seasons)
           THEN <<"Seasons at Brighton: ", player.seasons>> ELSE <<>>, {"seasons"}),
       Def(<<"Seasons at Brighton during second spell: ", player.seasons2>>,
           {"seasons2"}) >>

\* Variant: the era candidate is built whether or not there is a seasons text.
Tier1_eraAlways(player) ==
    << Def(EraClue(player), {"era"}),
       Def(<<"This player was born in ", player.pob, ", ", player.cob, " and has ",
             player.spells, " spell(s) at Brighton.">>, {"birth", "spells"}),
       Def(IF Truthy(player.seasons)
           THEN <<"Seasons at Brighton: ", player.seasons>> ELSE <<>>, {"seasons"}),
       Def(IF Truthy(player.seasons2)
           THEN <<"Seasons at Brighton during second spell: ", player.seasons2>>
           ELSE <<>>, {"seasons2"}) >>

\* app.py:223-228
Tier1(player) ==
    << Def(IF ~Truthy(player.seasons) THEN EraClue(player) ELSE <<>>, {"era"}),
       Def(<<"This player was born in ", player.pob, ", ", player.cob, " and has ",
             player.spells, " spell(s) at Brighton.">>, {"birth", "spells"}),
       Def(IF Truthy(player.seasons)
           THEN <<"Seasons at Brighton: ", player.seasons>> ELSE <<>>, {"seasons"}),
       Def(IF Truthy(player.seasons2)
           THEN <<"Seasons at Brighton during second spell: ", player.seasons2>>
           ELSE <<>>, {"seasons2"}) >>

\* Variant: the goals and joined-from candidates are built only for a non-empty
\* field.
Tier2_optional(player) ==
    << Def(<<"This player made ", player.apps, " league appearances for Brighton.">>,
           {"appearances"}),
       Def(IF Truthy(player.goals) THEN GoalsClue(player) ELSE <<>>, {"goals"}),
       Def(IF Truthy(player.joined_from)
           THEN <<"This player joined Brighton from ", player.joined_from>>
           ELSE <<>>, {"joined_from"}),
       Def(LeftForClue(player), {"left_for"}) >>

\* app.py:230-235
Tier2(player) ==
    << Def(<<"This player made ", player.apps, " league appearances for Brighton.">>,
           {"appearances"}),
       Def(GoalsClue(player), {"goals"}),
       Def(<<"This player joined Brighton from ", player.joined_from>>, {"joined_from"}),
       Def(LeftForClue(player), {"left_for"}) >>

\* Variant: the full birth candidate carries a tag of its own.
Tier3_birthOwnTag(player) ==
    << Def(<<"This player is a ", player.position, ".">>, {"position"}),
       Def(<<"This player was born on ", player.dob, ", in ", player.pob, ", ",
             player.cob, ".">>, {"dob"}) >>

\* app.py:237-240
Tier3(player) ==
    << Def(<<"This player is a ", player.position, ".">>, {"position"}),
       Def(<<"This player was born on ", player.dob, ", in ", player.pob, ", ",
             player.cob, ".">>, {"birth"}) >>

\* app.py:243-245
RemoveEmpty(tier) == SelectSeq(tier, LAMBDA d : ~Blank(d.c))

\* app.py:248-249: the default seed is str(date) + str(player.name), here the pair;
\* an explicit seed n is <<n>> and None is <<>>.
EffectiveSeed(player, seed) ==
    IF seed = <<>> THEN <<today, player.name>> ELSE seed

RECURSIVE Fact(_)
Fact(n) == IF n <= 1 THEN 1 ELSE n * Fact(n - 1)

\* The number of ways the three shuffles of one call can come out.
PermCount(player) ==
    Fact(Len(RemoveEmpty(Tier1(player)))) * Fact(Len(RemoveEmpty(Tier2(player))))
        * Fact(Len(RemoveEmpty(Tier3(player))))

\* random.Random(seed) is a fixed function of the seed: which of the PermCount
\* outcomes a seed leads to is rng_world shifted by a code of the seed.
SeedCode(seed) ==
    IF Len(seed) = 1 THEN seed[1]
    ELSE IF Len(seed) = 2 THEN 1 + 5 * seed[1] + 3 * seed[2]
    ELSE 2 + 5 * seed[1] + 3 * seed[2]

\* Variant: the generator is shared and not reseeded, so each call continues
\* the stream where the calls before it left it.
SeedRank_shared(seed, count) == (rng_world + Cardinality(DOMAIN clue_log)) % count

SeedRank(seed, count) == (rng_world + SeedCode(seed)) % count

\* The draws randbelow(i + 1), i = 1 .. n - 1, of one shuffle: the digits of the
\* rank in the mixed radix 2, 3, .., n above the weight of the earlier shuffles.
Draws(rank, n, weight) ==
    [i \in 1 .. (n - 1) |-> (rank \div (weight * Fact(i))) % (i + 1)]

Swap(x, a, b) == [x EXCEPT ![a] = x[b], ![b] = x[a]]

\* random.shuffle: for i in reversed(range(1, len(x))): j = randbelow(i + 1);
\* x[i], x[j] = x[j], x[i]   (0-based i, j)
RECURSIVE ShuffleFrom(_, _, _)
ShuffleFrom(x, i, draws) ==
    IF i < 1 THEN x
    ELSE ShuffleFrom(Swap(x, i + 1, draws[i] + 1), i - 1, draws)

Shuffle(x, draws) == ShuffleFrom(x, Len(x) - 1, draws)

\* Variant: the tiers are concatenated easy first.
ClueDefs_reversed(tier_1, tier_2, tier_3) == tier_3 \o tier_2 \o tier_1

\* app.py:256
ClueDefs(tier_1, tier_2, tier_3) == tier_1 \o tier_2 \o tier_3

\* Variant: every clue is appended.
TagsUnused_always(tags, facts_used) == TRUE

\* app.py:259
TagsUnused(tags, facts_used) == tags \cap facts_used = {}

\* app.py:258-261
RECURSIVE DedupFrom(_, _, _, _)
DedupFrom(clue_defs, k, facts_used, out) ==
    IF k > Len(clue_defs) THEN out
    ELSE IF TagsUnused(clue_defs[k].t, facts_used)
         THEN DedupFrom(clue_defs, k + 1, facts_used \cup clue_defs[k].t,
                        Append(out, clue_defs[k].c))
         ELSE DedupFrom(clue_defs, k + 1, facts_used, out)

\* app.py:192-262
build_clues(player, seed) ==
    LET tier_1 == RemoveEmpty(Tier1(player))
        tier_2 == RemoveEmpty(Tier2(player))
        tier_3 == RemoveEmpty(Tier3(player))
        w1 == Fact(Len(tier_1))
        w2 == w1 * Fact(Len(tier_2))
        rank == SeedRank(EffectiveSeed(player, seed), w2 * Fact(Len(tier_3)))
        shuffled_1 == Shuffle(tier_1, Draws(rank, Len(tier_1), 1))
        shuffled_2 == Shuffle(tier_2, Draws(rank, Len(tier_2), w1))
        shuffled_3 == Shuffle(tier_3, Draws(rank, Len(tier_3), w2))
    IN  DedupFrom(ClueDefs(shuffled_1, shuffled_2, shuffled_3), 1, {}, <<>>)

\* The explicit seeds of the tests (test_app.py:176-188) and None.
SeedArgs == {<<>>, <<42>>, <<99>>}

NoCall == [called |-> FALSE, seed |-> <<>>, repeat |-> FALSE]

\* One call build_clues(clue_player, seed).
BuildCluesCall(seed) ==
    /\ clues' = build_clues(clue_player, seed)
    /\ clue_seed' = [called |-> TRUE, seed |-> seed, repeat |-> seed \in DOMAIN clue_log]
    /\ clue_log' = IF seed = <<>> \/ seed \in DOMAIN clue_log THEN clue_log
                   ELSE Put(clue_log, seed, clues')
    /\ UNCHANGED <<model, instances, players_df, debug, current_player_index, recent_file, today,
                   rng_memo, resp, selected, clue_player, rng_world>>

\* The records build_clues is called on.
PlayerRecord(seasons, seasons2, goals, left_for) ==
    [name |-> 2, pob |-> "Brighton", cob |-> "England", spells |-> "1",
     dob |-> "21 November 1991", position |-> "Defender", apps |-> "436",
     joined_from |-> "Lewes",
     seasons |-> seasons, seasons2 |-> seasons2, goals |-> goals, left_for |-> left_for]

\* A field the catalog has no value for is "" after app.py:69; NaN is what a
\* record that did not pass through it holds.
CluePlayers ==
    {[PlayerRecord(s, s2, g, l) EXCEPT !.joined_from = j] :
        s \in {"", "2010-2024"}, s2 \in {"", "2015-2016"}, g \in {"5", "", NaN},
        l \in {"", "Retired", "Still at club", "Chelsea", NaN}, j \in {"Lewes", ""}}

\* ------------------------------------------------ catalog rows (app.py:27-69)
\* A name is a sequence of characters; the quote characters go by code point.
\* split_name (app.py:41-48): a name without a space has an empty last name.
FirstName(idx) ==
    CASE idx % 3 = 0 -> <<"A", "U+0027">>
      [] idx % 3 = 1 -> <<"a", "U+2019">>
      [] OTHER -> <<"a", "U+201D">>

LastName(idx) ==
    CASE idx % 3 = 0 -> <<"b">>
      [] idx % 3 = 1 -> <<"B">>
      [] OTHER -> <<>>

\* players_df.iloc[idx] for a position of the catalog; .name is the position
\* (reset_index, app.py:34).
CatalogRow(idx) ==
    [first_name |-> FirstName(idx), last_name |-> LastName(idx)]
        @@ [PlayerRecord(IF idx % 3 = 1 THEN "" ELSE "2010-2024",
                         IF idx % 3 = 2 THEN "2015-2016" ELSE "",
                         IF idx % 3 = 0 THEN "5" ELSE "",
                         CASE idx % 3 = 0 -> "Still at club"
                           [] idx % 3 = 1 -> "Retired"
                           [] OTHER -> "Chelsea")
            EXCEPT !.name = idx, !.apps = ToString(players_df[idx])]

\* ------------------------------------------------ request values
\* The player_id of a request body: a JSON integer, a JSON string of decimal
\* digits, a JSON number with a fraction part of zero, a string that is not a
\* number, or no value (None).
PlayerIds ==
    {[kind |-> "int", v |-> n] : n \in {0 - NPlayers - 1, -1, NPlayers} \cup Indices}
        \cup {[kind |-> k, v |-> n] : k \in {"str", "float"}, n \in Indices}
        \cup {[kind |-> "text", v |-> 0], [kind |-> "none", v |-> 0]}

\* int(player_id): {} when it raises (TypeError for None, ValueError for text).
IntOf(player_id) ==
    IF player_id.kind \in {"int", "str", "float"} THEN {player_id.v} ELSE {}

\* str(player_id): str(5) and str("5") are "5", str(5.0) is "5.0".
StrOf(player_id) ==
    IF player_id.kind = "float" THEN <<player_id.v, ".0">> ELSE <<player_id.v>>

\* players_df.iloc[n]: a position from the end for a negative n, {} when it
\* raises IndexError.
Iloc(n) ==
    IF 0 <= n /\ n < NPlayers THEN {n}
    ELSE IF 0 - NPlayers <= n /\ n < 0 THEN {NPlayers + n}
    ELSE {}

\* int(player_id) followed by iloc: the row the request designates, {} on an
\* exception.
RowOf(player_id) == UNION {Iloc(n) : n \in IntOf(player_id)}

\* list[i] of Python: {} when it raises IndexError.
ListItem(list, i) ==
    IF 0 <= i /\ i < Len(list) THEN {list[i + 1]}
    ELSE IF 0 - Len(list) <= i /\ i < 0 THEN {list[Len(list) + i + 1]}
    ELSE {}

\* A response: the route, the status, the request body it answers and the
\* JSON body.
ApiResp(op, status, req, body) ==
    [op |-> op, status |-> status, req |-> req, body |-> body]

\* Variant: the except clauses answer with status 503.
ErrorResp_unavailable(op, req) == ApiResp(op, "503", req, [error |-> TRUE])

\* The except clauses of the routes: a JSON body with 'error', status 500.
ErrorResp(op, req) == ApiResp(op, "500", req, [error |-> TRUE])

\* ------------------------------------------------ /api/daily-challenge (app.py:265-283)
\* What get_challenge does with the outcome of get_daily_player.
ReturnChallenge(r) ==
    IF r.status # "ok"
    THEN resp' = ErrorResp("challenge", <<>>) /\ UNCHANGED clueVars
    ELSE LET player == CatalogRow(CHOOSE idx \in r.idx : TRUE)
             list == build_clues(player, <<>>)
         IN  IF list = <<>>
             THEN resp' = ErrorResp("challenge", <<>>) /\ UNCHANGED clueVars
             ELSE /\ clue_log' = Put(clue_log, EffectiveSeed(player, <<>>), list)
                  /\ resp' = ApiResp("challenge", "200", <<>>,
                                      [firstNameLength |-> Len(player.first_name),
                                       lastNameLength |-> Len(player.last_name),
                                       firstClue |-> list[1],
                                       player_id |-> player.name,
                                       firstName |-> player.first_name,
                                       lastName |-> player.last_name])
                  /\ UNCHANGED <<clue_player, rng_world, clue_seed, clues>>

\* The caller keeps the outcome and does nothing else.
ReturnDaily(r) == resp' = r /\ UNCHANGED clueVars

Return(caller, r) ==
    IF caller = "get_challenge" THEN ReturnChallenge(r) ELSE ReturnDaily(r)

\* app.py:124-177.  Return(caller, r) is what the caller does with the outcome
\* r; the variables the function itself writes are set here.  An exception of
\* the load (app.py:133) leaves the function before anything is written.
get_daily_player(caller) ==
    IF OverrideInEffect
    THEN \* app.py:128-130
         /\ Return(caller, DailyResp("ok", current_player_index, "override", FALSE))
         /\ UNCHANGED <<model, instances, players_df, debug, current_player_index, recent_file,
                        today, rng_memo, selected>>
    ELSE IF LoadError # "none"
    THEN /\ Return(caller, DailyResp(LoadError, {}, "load", FALSE))
         /\ UNCHANGED <<model, instances, players_df, debug, current_player_index, recent_file,
                        today, rng_memo, selected>>
    ELSE LET recent_players == PruneOld(load_recent_players, today) IN
         IF CachedToday(recent_players, today)
         THEN \* app.py:142-146
              /\ Return(caller, DailyResp("ok", {recent_players[today]}, "cached", TRUE))
              /\ selected' = Put(selected, today, recent_players[today])
              /\ UNCHANGED <<model, instances, players_df, debug, current_player_index, recent_file,
                             today, rng_memo>>
         ELSE LET recently_used == RecentlyUsed(recent_players)
                  seed == DateSeed(today)
                  all_indices == AllIndices
                  available_indices == AvailableIndices(all_indices, recently_used)
                  n == Len(available_indices)
              IN  IF n = 0
                  THEN \* app.py:169: rng.choice of an empty list raises IndexError
                       /\ Return(caller, DailyResp("IndexError", {}, "fresh", TRUE))
                       /\ UNCHANGED <<model, instances, players_df, debug, current_player_index,
                                      recent_file, today, rng_memo, selected>>
                  ELSE \E j \in DrawChoices(seed, n) :
                         LET selected_index == available_indices[j + 1] IN
                         /\ rng_memo' = Put(rng_memo, <<seed, n>>, j)
                         /\ recent_file' = save_recent_players(
                                               Put(recent_players, today, selected_index))
                         /\ Return(caller, DailyResp("ok", {selected_index}, "fresh", TRUE))
                         /\ selected' = Put(selected, today, selected_index)
                         /\ UNCHANGED <<model, instances, players_df, debug, current_player_index, today>>

\* ------------------------------------------------ the history document (app.py:88-109)
\* The keys of the history are datetime objects: a day and a time of day.
\* get_daily_player makes them at midnight (app.py:141).
Midnight == "00:00:00"

DateTime(day, time) == [day |-> day, time |-> time]

\* Month and day of the month of a day ordinal; the model's days are in
\* December 2025 and January 2026.
DateMonth(t) == IF DateYDay(t) > 334 THEN 12 ELSE 1

DateDay(t) == IF DateYDay(t) > 334 THEN DateYDay(t) - 334 ELSE DateYDay(t)

\* Variant: the key is written as a date, without the time of day.
isoformat_dateOnly(key) == <<DateYear(key.day), DateMonth(key.day), DateDay(key.day)>>

\* datetime.isoformat() (app.py:106): 'YYYY-MM-DDTHH:MM:SS', as its pieces.
isoformat(key) ==
    <<DateYear(key.day), DateMonth(key.day), DateDay(key.day), "T", key.time>>

\* datetime.fromisoformat(date_str) (app.py:96): the day from year, month and
\* day of the month; the time of day when the text has one, else midnight.
fromisoformat(date_str) ==
    DateTime((date_str[1] - 2025) * 365
                 + (IF date_str[2] = 12 THEN 334 + date_str[3] ELSE date_str[3]) - 364,
             IF Len(date_str) = 5 THEN date_str[5] ELSE Midnight)

\* app.py:104-106: the dict written, key text -> index.
DocumentOf(recent_players) ==
    [date_str \in {isoformat(key) : key \in DOMAIN recent_players} |->
        recent_players[CHOOSE key \in DOMAIN recent_players : isoformat(key) = date_str]]

\* app.py:94-96: the dict built from the document read.
MappingOf(data) ==
    [key \in {fromisoformat(date_str) : date_str \in DOMAIN data} |->
        data[CHOOSE date_str \in DOMAIN data : fromisoformat(date_str) = key]]

\* The histories save_recent_players is called with: datetime keys, at
\* midnight or not, in both years; the values are indices (42 in
\* test_app.py:258).
HistoryKeys == {DateTime(0, Midnight), DateTime(0, "12:30:00"), DateTime(2, Midnight)}

HistoryValues == {0, 42}

Histories == UNION {[keys -> HistoryValues] : keys \in SUBSET HistoryKeys}

\* One call save_recent_players(recent_players) (app.py:101-109): the file is
\* opened with 'w' and the document written whole.  The response keeps the
\* argument and the file as it was before the call.
SaveRecentPlayers(recent_players) ==
    /\ recent_file' = JsonFile(DocumentOf(recent_players))
    /\ resp' = [op |-> "save", saved |-> recent_players, before |-> recent_file,
                result |-> EmptyMap]
    /\ UNCHANGED <<model, instances, players_df, debug, current_player_index, today,
                   rng_memo, selected, clueVars>>

\* One call load_recent_players() (app.py:88-99): a missing file reads as the
\* empty mapping.  The response keeps what the latest save was called with.
LoadRecentPlayers ==
    /\ resp' = [op |-> "load",
                saved |-> IF resp.op \in {"save", "load"} THEN resp.saved ELSE EmptyMap,
                before |-> IF resp.op \in {"save", "load"} THEN resp.before ELSE recent_file,
                result |-> IF recent_file.kind = "json"
                           THEN MappingOf(recent_file.data) ELSE EmptyMap]
    /\ UNCHANGED <<model, instances, players_df, debug, current_player_index, recent_file,
                   today, rng_memo, selected, clueVars>>

\* ------------------------------------------------ get_daily_player in concurrent processes
\* The record of a process that leaves get_daily_player without saving.
Returned(date, loaded, idx, path) ==
    [pc |-> "done", date |-> date, loaded |-> loaded, recent_players |-> loaded,
     idx |-> idx, path |-> path, read |-> recent_file.kind, overlap |-> FALSE]

\* app.py:128-170 in process i: the override test, the load, the pruning, the
\* lookup of today's entry and the draw.  The file is read once, by the load;
\* everything after it works on the process's own mapping.
InstanceLoad(i) ==
    /\ instances[i].pc = "idle"
    /\ IF OverrideInEffect
       THEN /\ instances' = [instances EXCEPT
                               ![i] = Returned(today, EmptyMap, current_player_index, "override")]
            /\ UNCHANGED rng_memo
       ELSE IF LoadError # "none"
       THEN /\ instances' = [instances EXCEPT ![i] = Returned(today, EmptyMap, {}, "load")]
            /\ UNCHANGED rng_memo
       ELSE LET recent_players == PruneOld(load_recent_players, today) IN
            IF CachedToday(recent_players, today)
            THEN /\ instances' = [instances EXCEPT
                        ![i] = Returned(today, recent_players, {recent_players[today]}, "cached")]
                 /\ UNCHANGED rng_memo
            ELSE LET recently_used == RecentlyUsed(recent_players)
                     seed == DateSeed(today)
                     available_indices == AvailableIndices(AllIndices, recently_used)
                     n == Len(available_indices)
                 IN  IF n = 0
                     THEN /\ instances' = [instances EXCEPT
                                 ![i] = Returned(today, recent_players, {}, "fresh")]
                          /\ UNCHANGED rng_memo
                     ELSE \E j \in DrawChoices(seed, n) :
                            LET selected_index == available_indices[j + 1] IN
                            /\ rng_memo' = Put(rng_memo, <<seed, n>>, j)
                            /\ instances' = [instances EXCEPT ![i] =
                                   [pc |-> "selected", date |-> today,
                                    loaded |-> recent_players,
                                    recent_players |-> Put(recent_players, today, selected_index),
                                    idx |-> {selected_index}, path |-> "fresh",
                                    read |-> recent_file.kind, overlap |-> FALSE]]
    /\ UNCHANGED <<model, players_df, debug, current_player_index, recent_file, today,
                   resp, selected, clueVars>>

\* app.py:108 in process i: open(RECENT_PLAYERS_FILE, 'w') truncates the file.
InstanceOpen(i) ==
    /\ instances[i].pc = "selected"
    /\ recent_file' = TruncatedFile
    /\ instances' = [instances EXCEPT ![i].pc = "opened"]
    /\ UNCHANGED <<model, players_df, debug, current_player_index, today, rng_memo,
                   resp, selected, clueVars>>

\* What the file holds after process i wrote its document from offset 0: the
\* document, or, when another process wrote a different document while i had
\* the file open, possibly the document followed by the tail of the other.
DumpOutcomes(i) ==
    {save_recent_players(instances[i].recent_players)}
        \cup (IF instances[i].overlap THEN {BadJsonFile} ELSE {})

\* app.py:109 in process i: json.dump and the end of the with block, then
\* the return of app.py:175-177.
InstanceDump(i) ==
    /\ instances[i].pc = "opened"
    /\ \E file \in DumpOutcomes(i) :
          /\ recent_file' = file
          /\ instances' =
               [k \in Instances |->
                  IF k = i THEN [instances[i] EXCEPT !.pc = "done"]
                  ELSE IF instances[k].pc = "opened"
                          /\ instances[k].recent_players # instances[i].recent_players
                       THEN [instances[k] EXCEPT !.overlap = TRUE]
                       ELSE instances[k]]
    /\ UNCHANGED <<model, players_df, debug, current_player_index, today, rng_memo,
                   resp, selected, clueVars>>

\* The request of process i is answered; the process waits for the next one.
InstanceReturn(i) ==
    /\ instances[i].pc = "done"
    /\ instances' = [instances EXCEPT ![i] = IdleInstance]
    /\ UNCHANGED <<model, players_df, debug, current_player_index, recent_file, today,
                   rng_memo, resp, selected, clueVars>>

\* One call of get_daily_player.
GetDailyPlayer == get_daily_player("direct")

\* One request to /api/daily-challenge.
GetChallenge == get_daily_player("get_challenge")

\* ------------------------------------------------ /api/clues (app.py:285-298)
\* Variant: the seed of get_clue holds the date of day 0, not of the request.
ClueSeed_firstDate(player_id) == <<0>> \o StrOf(player_id)

\* app.py:291: str(datetime.now().date()) + str(player_id)
ClueSeed(player_id) == <<today>> \o StrOf(player_id)

\* The clue_index of a request body.
ClueIndexes == {-1, 0, 1, 8}

GetClue(player_id, clue_index) ==
    LET req == [player_id |-> player_id, clue_index |-> clue_index] IN
    /\ IF RowOf(player_id) = {}
       THEN resp' = ErrorResp("clue", req)
       ELSE LET idx == CHOOSE i \in RowOf(player_id) : TRUE
                list == build_clues(CatalogRow(idx), ClueSeed(player_id))
            IN  resp' = IF ListItem(list, clue_index) = {}
                        THEN ErrorResp("clue", req)
                        ELSE ApiResp("clue", "200", req,
                                 [clue |-> CHOOSE c \in ListItem(list, clue_index) : TRUE])
    /\ UNCHANGED <<model, instances, players_df, debug, current_player_index, recent_file, today,
                   rng_memo, selected, clueVars>>

\* ------------------------------------------------ /api/cryptic-clue, /api/player-bio (app.py:326-395)
\* What model.generate_content(prompt) does: it returns a response with a
\* text, or it raises.
GenerateOutcomes == {"text", "raise"}

\* app.py:329-330, 362-363: no model is configured.
NotConfigured(op, req) == ApiResp(op, "503", req, [error |-> TRUE])

\* The body of the two routes: the test of model comes first; the row lookup
\* and the call are inside the try, whose except clause catches Exception.
GenerateRoute(op, player_id, outcome) ==
    LET req == [player_id |-> player_id, outcome |-> outcome] IN
    /\ resp' = IF ~model THEN NotConfigured(op, req)
               ELSE IF RowOf(player_id) = {} \/ outcome = "raise"
               THEN ErrorResp(op, req)
               ELSE ApiResp(op, "200", req,
                            [text |-> CatalogRow(CHOOSE i \in RowOf(player_id) : TRUE).name])
    /\ UNCHANGED <<model, instances, players_df, debug, current_player_index, recent_file, today,
                   rng_memo, selected, clueVars>>

\* One request to /api/cryptic-clue (app.py:326-358).
GetCrypticClue(player_id, outcome) == GenerateRoute("cryptic_clue", player_id, outcome)

\* One request to /api/player-bio (app.py:360-395).
GetPlayerBio(player_id, outcome) == GenerateRoute("player_bio", player_id, outcome)

\* ------------------------------------------------ /api/guess (app.py:300-324)
\* str.lower on the characters of the model
LowerChar(ch) ==
    CASE ch = "A" -> "a"
      [] ch = "B" -> "b"
      [] OTHER -> ch

Lower(text) == [i \in 1 .. Len(text) |-> LowerChar(text[i])]

\* Variant: only the curly apostrophes are replaced.
NormalizeChar_apostrophesOnly(ch) ==
    CASE ch \in {"U+2019", "U+2018"} -> "U+0027"
      [] OTHER -> ch

\* app.py:308-309: the four replacements of normalize
NormalizeChar(ch) ==
    CASE ch \in {"U+2019", "U+2018"} -> "U+0027"
      [] ch \in {"U+201C", "U+201D"} -> "U+0022"
      [] OTHER -> ch

normalize(text) == [i \in 1 .. Len(text) |-> NormalizeChar(text[i])]

\* app.py:311-312
is_correct(player, guess_first, guess_last) ==
    /\ normalize(guess_first) = normalize(Lower(player.first_name))
    /\ normalize(guess_last) = normalize(Lower(player.last_name))

\* app.py:316: f"{first} {last}".strip(); no name of the catalog has blanks
\* around it.
FullName(player) ==
    IF player.last_name = <<>> THEN player.first_name
    ELSE IF player.first_name = <<>> THEN player.last_name
    ELSE player.first_name \o <<" ">> \o player.last_name

Letters == {"a", "A"}

Chars == Letters \cup {"U+0027", "U+2018", "U+2019", "U+0022", "U+201C", "U+201D"}

\* The guesses: data.get('guess_first', '') is <<>> for a missing key.
GuessFirsts == {<<>>, <<"a">>} \cup {<<c, d>> : c \in Letters, d \in Chars}

GuessLasts == {<<>>, <<"b">>, <<"B">>}

GuessIds == {id \in PlayerIds : id.kind \in {"int", "none"}}

CheckGuess(player_id, guess_first, guess_last) ==
    LET req == [player_id |-> player_id, guess_first |-> guess_first,
                guess_last |-> guess_last]
        first == Lower(guess_first)
        last == Lower(guess_last)
    IN
    /\ IF RowOf(player_id) = {}
       THEN resp' = ErrorResp("guess", req)
       ELSE LET player == CatalogRow(CHOOSE i \in RowOf(player_id) : TRUE) IN
            resp' = IF is_correct(player, first, last)
                    THEN ApiResp("guess", "200", req,
                                 [correct |-> TRUE, fullName |-> FullName(player)])
                    ELSE ApiResp("guess", "200", req, [correct |-> FALSE])
    /\ UNCHANGED <<model, instances, players_df, debug, current_player_index, recent_file, today,
                   rng_memo, selected, clueVars>>

\* ------------------------------------------------ specification
Init ==
    /\ players_df \in [Indices -> {0, 7}]
    /\ debug \in BOOLEAN
    /\ current_player_index = {}
    /\ recent_file = MissingFile
    /\ today = 0
    /\ rng_memo = EmptyMap
    /\ resp = NoResp
    /\ selected = EmptyMap
    /\ clue_player = PlayerRecord("2010-2024", "", "5", "Still at club")
    /\ rng_world = 0
    /\ clue_seed = NoCall
    /\ clues = <<>>
    /\ clue_log = EmptyMap
    /\ model = FALSE
    /\ instances = IdleInstances

Next ==
    \/ GetDailyPlayer
    \/ \E idx \in -1 .. NPlayers : SetPlayer(idx)
    \/ DebugResetRecent
    \/ AdvanceDay
    \/ \E b \in BOOLEAN : SetDebug(b)

Spec == Init /\ [][Next]_vars

\* build_clues called on one record of CluePlayers, under every way the shuffles
\* of the seeds can come out.
ClueInit ==
    /\ players_df = [i \in Indices |-> 7]
    /\ debug = FALSE
    /\ current_player_index = {}
    /\ recent_file = MissingFile
    /\ today = 0
    /\ rng_memo = EmptyMap
    /\ resp = NoResp
    /\ selected = EmptyMap
    /\ clue_player \in CluePlayers
    /\ rng_world \in 0 .. (PermCount(clue_player) - 1)
    /\ clue_seed = NoCall
    /\ clues = <<>>
    /\ clue_log = EmptyMap
    /\ model = FALSE
    /\ instances = IdleInstances

ClueNext == \E seed \in SeedArgs : BuildCluesCall(seed)

ClueSpec == ClueInit /\ [][ClueNext]_vars

\* Last day of the requests to the three routes of the game.
ApiMaxDay == 1

\* The routes of the game in production mode, on a catalog whose rows all have
\* appearances.
ApiInit ==
    /\ players_df = [i \in Indices |-> 7]
    /\ debug = FALSE
    /\ current_player_index = {}
    /\ recent_file = MissingFile
    /\ today = 0
    /\ rng_memo = EmptyMap
    /\ resp = NoResp
    /\ selected = EmptyMap
    /\ clue_player = PlayerRecord("2010-2024", "", "5", "Still at club")
    /\ rng_world \in 0 .. 1
    /\ clue_seed = NoCall
    /\ clues = <<>>
    /\ clue_log = EmptyMap
    /\ model = FALSE
    /\ instances = IdleInstances

\* The history file is replaced from outside the program: deleted, or
\* overwritten with content save_recent_players did not write.
WriteFile(file) ==
    /\ recent_file' = file
    /\ selected' = EmptyMap
    /\ resp' = [NoResp EXCEPT !.op = "write_file"]
    /\ UNCHANGED <<model, instances, players_df, debug, current_player_index, today, rng_memo, clueVars>>

ForeignFiles == {MissingFile, BadJsonFile, NotObjectFile, BadKeysFile}

\* The daily selection in production mode over a history file that can be
\* replaced between calls.
HistoryNext ==
    \/ GetDailyPlayer
    \/ \E file \in ForeignFiles : WriteFile(file)
    \/ AdvanceDay

HistorySpec == ApiInit /\ [][HistoryNext]_vars

ApiNext ==
    \/ GetChallenge
    \/ \E player_id \in PlayerIds, clue_index \in ClueIndexes :
          GetClue(player_id, clue_index)
    \/ (today < ApiMaxDay /\ AdvanceDay)

ApiSpec == ApiInit /\ [][ApiNext]_vars

\* The two text-completion routes beside the daily selection, with and
\* without a configured model.
GenerateInit ==
    /\ players_df = [i \in Indices |-> 7]
    /\ debug = FALSE
    /\ current_player_index = {}
    /\ recent_file = MissingFile
    /\ today = 0
    /\ rng_memo = EmptyMap
    /\ resp = NoResp
    /\ selected = EmptyMap
    /\ clue_player = PlayerRecord("2010-2024", "", "5", "Still at club")
    /\ rng_world = 0
    /\ clue_seed = NoCall
    /\ clues = <<>>
    /\ clue_log = EmptyMap
    /\ model \in BOOLEAN
    /\ instances = IdleInstances

GenerateNext ==
    \/ \E player_id \in PlayerIds, outcome \in GenerateOutcomes :
          GetCrypticClue(player_id, outcome)
    \/ \E player_id \in PlayerIds, outcome \in GenerateOutcomes :
          GetPlayerBio(player_id, outcome)
    \/ GetDailyPlayer
    \/ (today < ApiMaxDay /\ AdvanceDay)

GenerateSpec == GenerateInit /\ [][GenerateNext]_vars

\* Several server processes in production mode over one catalog and one
\* history file.
RaceInit ==
    /\ players_df \in [Indices -> {0, 7}]
    /\ debug = FALSE
    /\ current_player_index = {}
    /\ recent_file = MissingFile
    /\ today = 0
    /\ rng_memo = EmptyMap
    /\ resp = NoResp
    /\ selected = EmptyMap
    /\ clue_player = PlayerRecord("2010-2024", "", "5", "Still at club")
    /\ rng_world = 0
    /\ clue_seed = NoCall
    /\ clues = <<>>
    /\ clue_log = EmptyMap
    /\ model = FALSE
    /\ instances = IdleInstances

RaceNext ==
    \/ \E i \in Instances : InstanceLoad(i)
    \/ \E i \in Instances : InstanceOpen(i)
    \/ \E i \in Instances : InstanceDump(i)
    \/ \E i \in Instances : InstanceReturn(i)
    \/ (today < ApiMaxDay /\ AdvanceDay)

RaceSpec == RaceInit /\ [][RaceNext]_vars

\* Calls of save_recent_players and load_recent_players on histories with
\* datetime keys.
FileNext ==
    \/ \E recent_players \in Histories : SaveRecentPlayers(recent_players)
    \/ LoadRecentPlayers

FileSpec == ApiInit /\ [][FileNext]_vars

\* Requests to /api/clues and /api/guess on one day.
RequestNext ==
    \/ \E player_id \in PlayerIds, clue_index \in ClueIndexes :
          GetClue(player_id, clue_index)
    \/ \E player_id \in GuessIds, guess_first \in GuessFirsts, guess_last \in GuessLasts :
          CheckGuess(player_id, guess_first, guess_last)

RequestSpec == ApiInit /\ [][RequestNext]_vars


\* ------------------------------------------------ properties
Eligible == {idx \in Indices : players_df[idx] > 0}

\* The step is a get_daily_player call on the normal path.
NormalDaily(r) == r.op = "daily" /\ r.path \in {"cached", "fresh"}

\* C1: with the override not in effect, a get_daily_player call that directly
\* follows a successful one on the same date takes the cached path, returns the
\* same index and leaves the history file as it is.
C1_SameDayIdempotent ==
    [][(NormalDaily(resp) /\ resp.status = "ok" /\ ~OverrideInEffect
            /\ resp'.op = "daily")
        => (resp'.idx = resp.idx /\ resp'.path = "cached" /\ resp'.status = "ok"
            /\ recent_file' = recent_file)]_vars

\* C1 witness: a second call of the day has returned the index the file holds.
C1_Witness ==
    /\ resp.op = "daily" /\ resp.path = "cached"
    /\ recent_file.kind = "json" /\ today \in DOMAIN recent_file.data
    /\ resp.idx = {recent_file.data[today]}

\* The indices returned on the days of the last WindowDays days, since the
\* history was last empty, are pairwise distinct.
NoRepeatInWindow ==
    \A d1, d2 \in DOMAIN selected :
        (d1 # d2 /\ d1 - d2 < WindowDays /\ d2 - d1 < WindowDays)
            => selected[d1] # selected[d2]

\* C2 as stated: with an eligible pool of at least WindowDays players (30 for the
\* window of 30 days), the indices returned on the dates of any run of at most
\* WindowDays consecutive days are pairwise distinct.
C2_NoRepeatWindow_PoolOfWindowSize ==
    Cardinality(Eligible) >= WindowDays => NoRepeatInWindow

\* C2 amended: the same with an eligible pool of at least WindowDays + 1 players
\* (31 for the window of 30 days): the window holds the WindowDays days before
\* today, so a pool of WindowDays players is exhausted on the day after them.
C2_NoRepeatWindow ==
    Cardinality(Eligible) >= WindowDays + 1 => NoRepeatInWindow

\* C2 witness: WindowDays consecutive days each have their selection, the pool
\* being exactly WindowDays + 1 players, and the window has slid past day 0.
C2_Witness ==
    /\ Cardinality(Eligible) = WindowDays + 1
    /\ today > WindowDays
    /\ DOMAIN selected = (today - WindowDays + 1) .. today

\* The eligible pool is not empty, today has no entry and every eligible index is
\* in the history of the window.
PoolExhausted ==
    LET recent_players == PruneOld(load_recent_players, today) IN
    /\ ~OverrideInEffect
    /\ Eligible # {}
    /\ today \notin DOMAIN recent_players
    /\ Eligible \subseteq {recent_players[d] : d \in DOMAIN recent_players}

\* C3: a selection made when the pool is exhausted succeeds, returns an eligible
\* index and records it for the date.
C3_ExhaustedPoolResets ==
    [][(PoolExhausted /\ resp'.op = "daily")
        => /\ resp'.status = "ok" /\ resp'.path = "fresh"
           /\ resp'.idx # {} /\ resp'.idx \subseteq Eligible
           /\ recent_file'.kind = "json"
           /\ today \in DOMAIN recent_file'.data
           /\ resp'.idx = {recent_file'.data[today]}]_vars

\* C3 witness: the index just drawn is one the history holds for an earlier day
\* of the window, which only the reset of the pool allows.
C3_Witness ==
    /\ resp.op = "daily" /\ resp.path = "fresh" /\ resp.status = "ok"
    /\ \E d \in DOMAIN recent_file.data :
          d # today /\ d >= today - WindowDays /\ resp.idx = {recent_file.data[d]}

\* C4: every player get_daily_player returns on the normal path, drawn or read
\* from the history, has league appearances > 0.
C4_SubjectHasAppearances ==
    (NormalDaily(resp) /\ resp.status = "ok")
        => (resp.idx # {} /\ \A idx \in resp.idx : players_df[idx] > 0)

\* C4 witness: a player was returned from the history while the catalog holds a
\* record with zero appearances.
C4_Witness ==
    /\ resp.op = "daily" /\ resp.path = "cached" /\ resp.status = "ok"
    /\ \E idx \in Indices : players_df[idx] = 0

\* C5: with an empty eligible pool and no entry for the date, the selection
\* fails with an error, returns no player and leaves the history file as it is.
C5_EmptyPoolFails ==
    [][(Eligible = {} /\ ~OverrideInEffect
            /\ today \notin DOMAIN load_recent_players /\ resp'.op = "daily")
        => (resp'.status = "IndexError" /\ resp'.idx = {}
            /\ recent_file' = recent_file)]_vars

\* C5 witness: the selection has failed and no history file exists.
C5_Witness ==
    /\ resp.op = "daily" /\ resp.status = "IndexError"
    /\ Eligible = {} /\ recent_file.kind = "missing"

\* C6: in debug mode with an override set, get_daily_player returns the override
\* index without loading or writing the history; otherwise (also in production
\* mode with an override set) the normal algorithm runs.
C6_DebugOverride ==
    [][resp'.op = "daily"
        => IF debug /\ current_player_index # {}
           THEN /\ resp'.path = "override" /\ resp'.status = "ok"
                /\ resp'.idx = current_player_index
                /\ ~resp'.loaded /\ recent_file' = recent_file
           ELSE /\ resp'.path \in {"cached", "fresh"} /\ resp'.loaded]_vars

\* C6 witness: the override index was returned while the file holds no entry for
\* the day and still holds an entry, of another index, older than the window.
C6_Witness ==
    /\ resp.op = "daily" /\ resp.path = "override"
    /\ today \notin DOMAIN recent_file.data
    /\ \E d \in DOMAIN recent_file.data :
          d < today - WindowDays /\ resp.idx # {recent_file.data[d]}

\* C7: in production mode /api/set-player and /api/debug/reset-recent answer 403
\* and change neither the override index nor the history file.
C7_ProductionLockout ==
    [][(~debug /\ resp'.op \in {"set_player", "reset_recent"})
        => (resp'.status = "403"
            /\ current_player_index' = current_player_index
            /\ recent_file' = recent_file)]_vars

\* C7 witness: a reset was refused while a history and an override exist.
C7_Witness ==
    /\ ~debug /\ resp.op = "reset_recent" /\ resp.status = "403"
    /\ recent_file.kind = "json" /\ DOMAIN recent_file.data # {}
    /\ current_player_index # {}

\* The candidates of the three tiers, blank ones included, each with its tier.
Candidates(player) ==
    {[c |-> Tier1(player)[i].c, t |-> Tier1(player)[i].t, tier |-> 1] : i \in 1 .. 4}
        \cup {[c |-> Tier2(player)[i].c, t |-> Tier2(player)[i].t, tier |-> 2] : i \in 1 .. 4}
        \cup {[c |-> Tier3(player)[i].c, t |-> Tier3(player)[i].t, tier |-> 3] : i \in 1 .. 2}

\* The fact tags of each clue of a list: those of the candidates with its text.
TagsOfClues(player, list) ==
    LET cands == Candidates(player) IN
    [i \in 1 .. Len(list) |-> UNION {d.t : d \in {e \in cands : e.c = list[i]}}]

\* The tier of each clue of a list: the first tier with a candidate of its text.
TiersOfClues(player, list) ==
    LET cands == Candidates(player) IN
    [i \in 1 .. Len(list) |->
        IF \E e \in cands : e.c = list[i] /\ e.tier = 1 THEN 1
        ELSE IF \E e \in cands : e.c = list[i] /\ e.tier = 2 THEN 2
        ELSE 3]

\* C8: no two clues of the list build_clues returns share a fact tag.
C8_FactDedup ==
    clue_seed.called =>
        LET tags == TagsOfClues(clue_player, clues) IN
        \A i, k \in 1 .. Len(clues) : i # k => tags[i] \cap tags[k] = {}

\* C8 witness: both birth candidates were non-blank, the list holds one clue with
\* the birth tag and at least six clues.
C8_Witness ==
    /\ clue_seed.called
    /\ LET tags == TagsOfClues(clue_player, clues) IN
       Cardinality({i \in 1 .. Len(clues) : "birth" \in tags[i]}) = 1
    /\ ~Blank(Tier3(clue_player)[2].c) /\ ~Blank(Tier1(clue_player)[2].c)
    /\ Len(clues) >= 6

C10_TierOrder ==
    clue_seed.called =>
        LET tiers == TiersOfClues(clue_player, clues) IN
        /\ \A i, k \in 1 .. Len(clues) : i < k => tiers[i] <= tiers[k]
        /\ (RemoveEmpty(Tier1(clue_player)) # <<>> => (clues # <<>> /\ tiers[1] = 1))

\* C10 witness: the shuffle reversed the first two candidates of Tier 2 and the
\* list holds clues of all three tiers.
C10_Witness ==
    /\ clue_seed.called
    /\ LET tiers == TiersOfClues(clue_player, clues) IN
       {tiers[i] : i \in 1 .. Len(clues)} = {1, 2, 3}
    /\ \E i, k \in 1 .. Len(clues) :
          /\ i < k
          /\ clues[i] = Tier2(clue_player)[2].c
          /\ clues[k] = Tier2(clue_player)[1].c

\* The phrases the claims look for in a clue, by the piece that holds them
\* ("Seasons at Brighton during ..." does not hold "Seasons at Brighton:").
PhrasesIn(piece) ==
    CASE piece = "This player left Brighton to join " -> {"left Brighton to join"}
      [] HasRetired(piece) -> {"Retired"}
      [] piece = "Seasons at Brighton: " -> {"Seasons at Brighton:"}
      [] piece = "Seasons at Brighton during second spell: " -> {"second spell"}
      [] piece = "This player played for Brighton during " -> {"played for Brighton during"}
      [] piece = "This player scored " -> {"This player scored"}
      [] piece = "This player joined Brighton from " -> {"joined Brighton from"}
      [] piece = "This player was born in " -> {"was born in"}
      [] piece = " spell(s) at Brighton." -> {"spell(s) at Brighton"}
      [] piece = "This player was born on " -> {"was born on"}
      [] OTHER -> {}

\* phrase in clue
Contains(clue, phrase) == \E i \in 1 .. Len(clue) : phrase \in PhrasesIn(clue[i])

\* The positions of the list whose clue holds the phrase.
CluesWith(list, phrase) == {i \in 1 .. Len(list) : Contains(list[i], phrase)}

StillAtClubClue == <<"This player is still at the club.">>

\* C11: for a player whose left_for is "Still at club" and whose first-spell
\* seasons text is non-empty, the list build_clues returns holds the
\* "Seasons at Brighton: ..." clue and does not hold "This player is still at
\* the club."
C11_StillAtClubSuppressed ==
    (clue_seed.called /\ clue_player.left_for = "Still at club"
        /\ Truthy(clue_player.seasons))
        => /\ CluesWith(clues, "Seasons at Brighton:") # {}
           /\ \A i \in 1 .. Len(clues) : clues[i] # StillAtClubClue

\* C11 failing state: build_clues returned the seasons clue and the
\* still-at-club clue in one list.
C11_Witness ==
    /\ clue_seed.called /\ clue_player.left_for = "Still at club"
    /\ Truthy(clue_player.seasons)
    /\ CluesWith(clues, "Seasons at Brighton:") # {}
    /\ \E i \in 1 .. Len(clues) : clues[i] = StillAtClubClue

\* C12: for a player whose left_for text contains "Retired", whatever the seed,
\* no clue of the list build_clues returns contains "left Brighton to join" or
\* "Retired".
C12_RetiredSuppressed ==
    (clue_seed.called /\ HasRetired(clue_player.left_for))
        => /\ CluesWith(clues, "left Brighton to join") = {}
           /\ CluesWith(clues, "Retired") = {}

\* C12 witness: a retired player's list, with the three other Tier 2 clues in it.
C12_Witness ==
    /\ clue_seed.called /\ HasRetired(clue_player.left_for)
    /\ CluesWith(clues, "This player scored") # {}
    /\ CluesWith(clues, "joined Brighton from") # {}
    /\ Len(clues) >= 6

\* C13: whatever the seed, the list build_clues returns holds exactly one clue
\* containing "second spell" if the second-spell seasons text is non-empty, and
\* none if it is empty.
C13_SecondSpellClue ==
    clue_seed.called =>
        Cardinality(CluesWith(clues, "second spell"))
            = IF Truthy(clue_player.seasons2) THEN 1 ELSE 0

\* C13 witness: a list with the second-spell clue that is not its first clue,
\* returned for an explicit seed.
C13_Witness ==
    /\ clue_seed.called /\ clue_seed.seed # <<>>
    /\ Truthy(clue_player.seasons2)
    /\ CluesWith(clues, "second spell") \cap {2, 3} # {}

\* C14: for a player with a non-empty first-spell seasons text no clue of the
\* list is an era clue, and no list holds both an era clue and the first-spell
\* seasons clue.
C14_EraSeasonsExclusion ==
    clue_seed.called =>
        /\ Truthy(clue_player.seasons)
             => CluesWith(clues, "played for Brighton during") = {}
        /\ ~(CluesWith(clues, "played for Brighton during") # {}
             /\ CluesWith(clues, "Seasons at Brighton:") # {})

\* C14 witness: the seasons text yields an era, and the list holds the seasons
\* clue.
C14_Witness ==
    /\ clue_seed.called
    /\ EraClue(clue_player) # <<>>
    /\ CluesWith(clues, "Seasons at Brighton:") # {}

\* C15: the list holds the goals clue only if the goals value is present and the
\* joined-from clue only if the prior-club text is present: a record whose
\* field is empty, as the loaded catalog stores a missing value, gets no clue
\* for that fact.
C15_OptionalFieldSuppression ==
    clue_seed.called =>
        /\ CluesWith(clues, "This player scored") # {}
             => (clue_player.goals # NaN /\ Truthy(clue_player.goals))
        /\ CluesWith(clues, "joined Brighton from") # {}
             => Truthy(clue_player.joined_from)

\* C15 failing state: both fields are empty and the list holds a goals clue and
\* a joined-from clue.
C15_Witness ==
    /\ clue_seed.called
    /\ ~Truthy(clue_player.goals) /\ ~Truthy(clue_player.joined_from)
    /\ CluesWith(clues, "This player scored") # {}
    /\ CluesWith(clues, "joined Brighton from") # {}

\* C16: for every record and every seed build_clues returns a list of at least
\* 4 and at most 9 clues.
C16_ClueCount ==
    clue_seed.called => (4 <= Len(clues) /\ Len(clues) <= 9)

\* C16 witness: a record as the catalog stores it, every optional field empty
\* and the player retired, for which the list is the shortest.
C16_Witness ==
    /\ clue_seed.called
    /\ clue_player.goals = "" /\ clue_player.joined_from = ""
    /\ clue_player.seasons = "" /\ clue_player.seasons2 = ""
    /\ clue_player.left_for = "Retired"
    /\ Len(clues) = 5

\* A player_id that is a position of the catalog, sent as a JSON integer or as
\* the string of its decimal digits.
CanonicalId(player_id) == player_id.kind \in {"int", "str"} /\ ValidIndex(player_id.v)

\* C17: on one date, for a player index, /api/clues with clue_index i returns
\* element i of the list /api/daily-challenge built for that player on that
\* date; clue_index 0 returns the firstClue of the challenge just answered; and
\* a request for the same player and position returns what the request before
\* it returned.
C17_ClueRetrievalConsistent ==
    [][(resp'.op = "clue" /\ CanonicalId(resp'.req.player_id))
        => LET id == resp'.req.player_id
               i == resp'.req.clue_index
               key == <<today', id.v>>
           IN  /\ (key \in DOMAIN clue_log' /\ 0 <= i /\ i < Len(clue_log'[key]))
                    => (resp'.status = "200"
                        /\ resp'.body.clue = clue_log'[key][i + 1])
               /\ (resp.op = "challenge" /\ resp.status = "200"
                   /\ resp.body.player_id = id.v /\ i = 0)
                    => (resp'.status = "200"
                        /\ resp'.body.clue = resp.body.firstClue)
               /\ (resp.op = "clue" /\ resp.req.clue_index = i
                   /\ CanonicalId(resp.req.player_id) /\ resp.req.player_id.v = id.v)
                    => (resp'.status = resp.status /\ resp'.body = resp.body)]_vars

\* C17 witness: on the second day /api/clues returned, for the player_id sent
\* as a string, the second clue of the list the challenge of that day built,
\* after a challenge of the day before for another player.
C17_Witness ==
    /\ resp.op = "clue" /\ resp.status = "200"
    /\ resp.req.player_id.kind = "str" /\ resp.req.clue_index = 1
    /\ today = 1
    /\ <<today, resp.req.player_id.v>> \in DOMAIN clue_log
    /\ \E key \in DOMAIN clue_log : key[1] = 0
    /\ resp.body.clue = clue_log[<<today, resp.req.player_id.v>>][2]

\* What the comparison of a guess is insensitive to, character by character:
\* the case of a letter, and which of the quote characters of a kind it is.
CanonChar(ch) ==
    CASE ch \in {"a", "A"} -> "a"
      [] ch \in {"b", "B"} -> "b"
      [] ch \in {"U+0027", "U+2018", "U+2019"} -> "U+0027"
      [] ch \in {"U+0022", "U+201C", "U+201D"} -> "U+0022"
      [] OTHER -> ch

Canon(text) == [i \in 1 .. Len(text) |-> CanonChar(text[i])]

CurlyQuotes == {"U+2018", "U+2019", "U+201C", "U+201D"}

\* C18: check_guess answers correct = true exactly when, after lowercasing and
\* the mapping of U+2018/U+2019 to ' and of U+201C/U+201D to " on both sides,
\* the guessed first name is the player's first name and the guessed last name
\* the player's last name; the answer has a fullName exactly when it is correct.
C18_GuessCheck ==
    (resp.op = "guess" /\ resp.status = "200")
        => LET player == CatalogRow(CHOOSE i \in RowOf(resp.req.player_id) : TRUE) IN
           /\ resp.body.correct
                = (/\ Canon(resp.req.guess_first) = Canon(player.first_name)
                   /\ Canon(resp.req.guess_last) = Canon(player.last_name))
           /\ ("fullName" \in DOMAIN resp.body) = resp.body.correct

\* C18 witness: a guess was found correct that differs from the stored name in
\* the case of a letter and in a curly quote, the stored name holding another
\* curly quote.
C18_Witness ==
    /\ resp.op = "guess" /\ resp.status = "200" /\ resp.body.correct
    /\ LET player == CatalogRow(CHOOSE i \in RowOf(resp.req.player_id) : TRUE) IN
       /\ Len(resp.req.guess_first) = 2
       /\ resp.req.guess_first[1] = "A" /\ player.first_name[1] = "a"
       /\ resp.req.guess_first[2] \in CurlyQuotes
       /\ player.first_name[2] \in CurlyQuotes
       /\ resp.req.guess_first[2] # player.first_name[2]
       /\ resp.body.fullName = FullName(player)

\* C19: a player index outside 0 .. len(catalog) - 1, negative ones included,
\* sent to /api/clues or /api/guess is answered with an error, never with a
\* clue or a verdict.
C19_InvalidIndexIsError ==
    (resp.op \in {"clue", "guess"} /\ IntOf(resp.req.player_id) # {}
        /\ ~ValidIndex(resp.req.player_id.v))
        => resp.status = "500"

\* C19 failing state: the guess sent with player_id -1 was found correct, with
\* the full name of the last row of the catalog.
C19_Witness ==
    /\ resp.op = "guess" /\ resp.status = "200"
    /\ resp.req.player_id = [kind |-> "int", v |-> -1]
    /\ resp.body.correct
    /\ resp.body.fullName = FullName(CatalogRow(NPlayers - 1))

\* C20: whenever the history file is missing or malformed (not JSON, not an
\* object, keys that are not ISO dates) load_recent_players returns the empty
\* mapping without raising, and the selection proceeds as with an empty
\* history: it draws from the whole eligible pool and saves a history that holds
\* the day's entry only.
C20_LoadFailsSoft ==
    [][(resp'.op = "daily" /\ recent_file.kind # "json")
        => /\ resp'.status = "ok" /\ resp'.path = "fresh"
           /\ resp'.idx \subseteq Eligible
           /\ \E idx \in resp'.idx :
                 recent_file' = JsonFile(Put(EmptyMap, today, idx))]_vars

\* C20 failing state: the file holds a JSON list and get_daily_player ended
\* with the AttributeError of the load, the file left as it was.
C20_Witness ==
    /\ resp.op = "daily" /\ resp.status = "AttributeError"
    /\ recent_file = NotObjectFile

\* The clues of a list, as a set.
ClueSet(list) == {list[i] : i \in 1 .. Len(list)}

C30_EraUnreachable ==
    clue_seed.called =>
        /\ CluesWith(clues, "played for Brighton during") = {}
        /\ LET tags == TagsOfClues(clue_player, clues) IN
           \A i \in 1 .. Len(clues) : "era" \notin tags[i]
        /\ \A i \in 1 .. Len(RemoveEmpty(Tier1(clue_player))) :
              "era" \notin RemoveEmpty(Tier1(clue_player))[i].t

\* C30 witness: a list returned for a record without a first-spell seasons
\* text, the case in which the era candidate is not withheld.
C30_Witness ==
    /\ clue_seed.called
    /\ ~Truthy(clue_player.seasons)
    /\ Truthy(clue_player.seasons2)
    /\ Len(clues) >= 6

\* The indices the history file holds for the WindowDays days before today.
UsedInWindow ==
    {load_recent_players[d] :
        d \in {e \in DOMAIN load_recent_players : today - WindowDays <= e /\ e < today}}

\* C23: with the override not in effect, when the date has no history entry and
\* some eligible index is absent from the non-pruned history, the index selected
\* is none of those recorded for the WindowDays (30) days before.
C23_AvoidsRecent ==
    [][(~OverrideInEffect /\ today \notin DOMAIN load_recent_players
            /\ Eligible \ RecentlyUsed(PruneOld(load_recent_players, today)) # {}
            /\ resp'.op = "daily")
        => (resp'.status = "ok" /\ resp'.path = "fresh"
            /\ resp'.idx # {} /\ resp'.idx \cap UsedInWindow = {})]_vars

\* C23 witness: the selection just made found each of the WindowDays days
\* before in the history, with a different index each, and returned another.
C23_Witness ==
    /\ resp.op = "daily" /\ resp.path = "fresh" /\ resp.status = "ok"
    /\ (today - WindowDays) .. today \subseteq DOMAIN recent_file.data
    /\ Cardinality({recent_file.data[d] : d \in (today - WindowDays) .. today})
         = WindowDays + 1

\* C24: when a new selection for date d is saved, the saved history holds no
\* entry dated before d - WindowDays (30 days), keeps every earlier entry dated
\* d - WindowDays or later, and the index of an entry dated exactly
\* d - WindowDays is not drawn while another eligible index is free.
C24_PruningBoundary ==
    [][(resp'.op = "daily" /\ resp'.path = "fresh" /\ resp'.status = "ok")
        => LET old == load_recent_players
               new == recent_file'.data
           IN  /\ \A d \in DOMAIN new : d >= today - WindowDays
               /\ \A d \in DOMAIN old :
                     d >= today - WindowDays => (d \in DOMAIN new /\ new[d] = old[d])
               /\ (today - WindowDays \in DOMAIN old
                   /\ Eligible \ {old[d] : d \in {e \in DOMAIN old :
                                                    e >= today - WindowDays}} # {})
                    => resp'.idx # {old[today - WindowDays]}]_vars

\* C24 witness: the history just saved holds the new entry and one dated
\* exactly WindowDays days before it, and nothing in between.
C24_Witness ==
    /\ resp.op = "daily" /\ resp.path = "fresh" /\ resp.status = "ok"
    /\ DOMAIN recent_file.data = {today - WindowDays, today}

\* C27: every value the history file holds is a catalog index whose record has
\* league appearances > 0; and the history has one entry per date: a selection
\* writes the file only for a date that has no entry, adds the entry of that
\* date and replaces no other.
C27_HistoryHoldsValidTargets ==
    [][/\ recent_file'.kind = "json"
            => \A d \in DOMAIN recent_file'.data :
                  /\ recent_file'.data[d] \in Indices
                  /\ players_df[recent_file'.data[d]] > 0
       /\ (resp'.op = "daily" /\ recent_file' # recent_file)
            => /\ today \notin DOMAIN load_recent_players
               /\ today \in DOMAIN recent_file'.data
               /\ \A d \in DOMAIN recent_file'.data \ {today} :
                     d \in DOMAIN load_recent_players
                     /\ recent_file'.data[d] = load_recent_players[d]]_vars

\* C27 witness: in production mode the history holds entries of WindowDays + 1
\* dates while the catalog has a record without appearances.
C27_Witness ==
    /\ ~debug /\ recent_file.kind = "json"
    /\ Cardinality(DOMAIN recent_file.data) = WindowDays + 1
    /\ \E idx \in Indices : players_df[idx] = 0

GenerateOps == {"cryptic_clue", "player_bio"}

\* What get_daily_player reads: the history, the override, the mode, the
\* catalog, the date and the generator.
SelectionState == <<recent_file, current_player_index, debug, players_df, today, rng_memo>>

\* C22: a request to /api/cryptic-clue or /api/player-bio is answered with 503
\* when no model is configured and with 500 when the text-completion call
\* raises; in both cases the request returns a response and leaves the history,
\* the override and everything the next daily selection reads as they were.
C22_GenerateFailures ==
    [][resp'.op \in GenerateOps
        => /\ (~model => resp'.status = "503")
           /\ (model /\ resp'.req.outcome = "raise" => resp'.status = "500")
           /\ resp'.status \in {"200", "500", "503"}
           /\ (resp'.status # "200" => resp'.body = [error |-> TRUE])
           /\ SelectionState' = SelectionState]_vars

\* C22 witness: with a model configured and a day's selection in the history,
\* the text-completion call for a row of the catalog raised and the request
\* was answered.
C22_Witness ==
    /\ model /\ resp.op = "cryptic_clue" /\ resp.req.outcome = "raise"
    /\ RowOf(resp.req.player_id) # {}
    /\ resp.status = "500"
    /\ recent_file.kind = "json" /\ today \in DOMAIN recent_file.data

\* C22 as stated: a failing text-completion call, like a missing model, is
\* answered with a service-unavailable (503) response.
C22_FailureIsUnavailable ==
    (resp.op \in GenerateOps /\ (~model \/ resp.req.outcome = "raise"))
        => resp.status = "503"

\* Process i is in, or has left, a call that drew a new index.
DrewFresh(i) ==
    /\ instances[i].pc \in {"selected", "opened", "done"}
    /\ instances[i].path = "fresh" /\ instances[i].idx # {}

C26_FirstSelectionRace ==
    \A i, j \in Instances :
        (DrewFresh(i) /\ DrewFresh(j) /\ instances[i].date = instances[j].date)
        => /\ instances[i].idx \subseteq Eligible
           /\ (Eligible \ RecentlyUsed(instances[i].loaded) # {}
                 => instances[i].idx \cap RecentlyUsed(instances[i].loaded) = {})
           /\ (instances[i].idx # instances[j].idx
                 => /\ instances[i].loaded # instances[j].loaded
                    /\ instances[i].recent_players # instances[j].recent_players)

\* C26 witness: two processes have answered the first selection of the same
\* date with different indices; one loaded the history before the other
\* opened the file, the other loaded while the file was open for writing.
C26_Witness ==
    \E i, j \in Instances :
        /\ i # j /\ DrewFresh(i) /\ DrewFresh(j)
        /\ instances[i].pc = "done" /\ instances[j].pc = "done"
        /\ instances[i].date = instances[j].date
        /\ instances[i].read = "json" /\ instances[j].read = "truncated"
        /\ instances[i].idx # instances[j].idx

\* C21: load_recent_players after save_recent_players(h) returns exactly h,
\* and the document a save writes holds the entries of its mapping only: no
\* entry of the document it replaces survives unless the mapping has it.
C21_HistoryRoundTrip ==
    [][/\ (resp'.op = "load" /\ resp.op = "save") => resp'.result = resp.saved
       /\ resp'.op = "save"
            => /\ DOMAIN recent_file'.data = {isoformat(key) : key \in DOMAIN resp'.saved}
               /\ \A key \in DOMAIN resp'.saved :
                     recent_file'.data[isoformat(key)] = resp'.saved[key]]_vars

\* C21 witness: a load returned the mapping just saved, which has a midnight
\* key and one with a time of day, and the save replaced a document with an
\* entry the mapping does not have.
C21_Witness ==
    /\ resp.op = "load" /\ resp.result = resp.saved
    /\ DOMAIN resp.saved = {DateTime(0, "12:30:00"), DateTime(2, Midnight)}
    /\ resp.before.kind = "json"
    /\ isoformat(DateTime(0, Midnight)) \in DOMAIN resp.before.data

=============================================================================
